---------------------------- MODULE Spec2Model ----------------------------
(***************************************************************************)
(* Model of riot-wrappers' gnrc::ipv6 module (src/src/gnrc/ipv6.rs):       *)
(*   - Netif::ipv6_addrs and the IPv6AddrList read views,                  *)
(*   - IPv6Addr::from_str (bridge to the ipv6_addr_from_str primitive),    *)
(*   - the Debug rendering of IPv6Addr,                                    *)
(*   - split_ipv6_address.                                                 *)
(* Strings are sequences of bytes (0..255); an address is a 16-tuple of    *)
(* bytes.  A run exercises one entry point: Init draws the entry point     *)
(* and its input, the actions are the calls.                               *)
(***************************************************************************)
EXTENDS Integers, Sequences, FiniteSets, TLC

VARIABLES
    pc,         \* position of the caller
    netif_ret,  \* what gnrc_netif_ipv6_addrs_get reported and wrote
    ret,        \* return value of Netif::ipv6_addrs
    slice,      \* last result of IPv6AddrList::deref
    iter,       \* the slice iterator made by into_iter
    yielded,    \* items the iterator has produced so far
    input,      \* the &str handed to from_str / split_ipv6_address
    with_null,  \* from_str's local buffer as handed to the primitive
    prim,       \* invocations and return of ipv6_addr_from_str
    pidArg,     \* the &str handed to kernel_pid_t's parse, if any
    calls,      \* order of the parse calls split_ipv6_address made
    result,     \* return value of from_str / split_ipv6_address
    addr,       \* the IPv6Addr being rendered
    rendered    \* output of Debug::fmt

vars == <<pc, netif_ret, ret, slice, iter, yielded, input, with_null, prim,
          pidArg, calls, result, addr, rendered>>

listVars == <<netif_ret, ret, slice, iter, yielded>>
parseVars == <<input, with_null, prim, pidArg, calls, result>>
fmtVars == <<addr, rendered>>

---------------------------------------------------------------------------
(* Bounds of the model *)

\* CONFIG_GNRC_NETIF_IPV6_ADDRS_NUMOF, the MAX of the list ipv6_addrs returns
MAX == 2
\* how many records beyond MAX a (misbehaving) query may report
MaxOver == 1
\* negative statuses -1 .. -MaxErrno
MaxErrno == 2
\* all strings over Alphabet up to this length are inputs
MaxShort == 4
\* long inputs have lengths 39 - MaxAround .. 39 + MaxAround
MaxAround == 2

(* Program constants *)

\* size_of::<IPv6Addr>(): ipv6_addr_t is 16 bytes
AddrSize == 16
\* [0u8; 32 + 7 + 1]
WithNullLen == 40
\* kernel_pid_t is int16_t
KernelPidBits == 16

---------------------------------------------------------------------------
(* Bytes, strings, addresses *)

Ascii ==
    ("%" :> 37) @@ ("+" :> 43) @@ ("-" :> 45) @@ (":" :> 58) @@
    ("0" :> 48) @@ ("1" :> 49) @@ ("2" :> 50) @@ ("3" :> 51) @@ ("4" :> 52) @@
    ("5" :> 53) @@ ("6" :> 54) @@ ("7" :> 55) @@ ("8" :> 56) @@ ("9" :> 57) @@
    ("a" :> 97) @@ ("b" :> 98) @@ ("c" :> 99) @@ ("d" :> 100) @@
    ("e" :> 101) @@ ("f" :> 102) @@ ("n" :> 110) @@ ("o" :> 111) @@
    ("r" :> 114) @@ ("s" :> 115) @@ ("t" :> 116) @@ ("x" :> 120)

\* the bytes of a string written as a tuple of its characters
B(chars) == [i \in 1..Len(chars) |-> Ascii[chars[i]]]

Repeat(b, n) == [i \in 1..n |-> b]

\* the address with bytes b0, b1 at (0-based) indices 0, 1, b15 at index 15
\* and zero between
Addr(b0, b1, b15) ==
    [i \in 1..AddrSize |->
        IF i = 1 THEN b0 ELSE IF i = 2 THEN b1 ELSE IF i = AddrSize THEN b15 ELSE 0]

\* fe80::1
LinkLocal1 == Addr(254, 128, 1)

\* addresses a collaborator (query, primitive) may write: fe80::1, ff02::1
AddrPool == {LinkLocal1, Addr(255, 2, 1)}

---------------------------------------------------------------------------
(* IPv6AddrList and Netif::ipv6_addrs *)

Uninit == [init |-> FALSE]
Slot(a) == [init |-> TRUE, value |-> a]

NoRet == [tag |-> "None"]
NoSlice == [tag |-> "None"]
NoIter == [tag |-> "None"]
NoQuery == [called |-> FALSE]

\* gnrc_netif_ipv6_addrs_get: a negative status, or a byte count; the whole
\* records it reports are written from offset 0, within the capacity it was given
Statuses == (0 - MaxErrno) .. ((MAX + MaxOver) * AddrSize)

RecordsWritten(status, capacity) ==
    IF status < 0 THEN 0
    ELSE IF status \div AddrSize > capacity \div AddrSize THEN capacity \div AddrSize
    ELSE status \div AddrSize

\* storage after the query: MaybeUninit::uninit() overwritten by the records
Storage(records) ==
    [i \in 1..MAX |-> IF i <= Len(records) THEN Slot(records[i]) ELSE Uninit]

\* NegativeErrorExt::negative_to_error
negative_to_error(status) ==
    IF status >= 0 THEN [tag |-> "Ok", value |-> status]
    ELSE [tag |-> "Err", number |-> status]

\* (result as usize) / size_of::<IPv6Addr>()
FillLen(bytes) == bytes \div AddrSize

\* ipv6_addrs without the ? on the status: the list is returned all the same
Ipv6AddrsReturn_IgnoreStatus(status, addresses) ==
    [tag |-> "Ok", addresses |-> addresses,
     len |-> IF status < 0 THEN 0 ELSE FillLen(status)]

\* addrs.len = (result.negative_to_error()? as usize) / ...; Ok(addrs)
Ipv6AddrsReturn(status, addresses) ==
    LET r == negative_to_error(status) IN
    IF r.tag = "Err" THEN [tag |-> "Err", number |-> r.number]
    ELSE [tag |-> "Ok", addresses |-> addresses, len |-> FillLen(r.value)]

\* deref without the bound of len: the whole storage
Deref_WholeStorage(list) ==
    [tag |-> "Slice", items |-> list.addresses]

\* &self.addresses[..self.len], transmuted to &[IPv6Addr]; the slice index
\* panics when len exceeds the array's length
Deref(list) ==
    IF list.len > Len(list.addresses) THEN [tag |-> "Panic"]
    ELSE [tag |-> "Slice", items |-> SubSeq(list.addresses, 1, list.len)]

\* Netif::ipv6_addrs
Ipv6Addrs ==
    /\ pc = "ipv6_addrs"
    /\ \E status \in Statuses :
         \E records \in [1..RecordsWritten(status, MAX * AddrSize) -> AddrPool] :
            /\ netif_ret' = [called |-> TRUE, status |-> status, records |-> records]
            /\ ret' = Ipv6AddrsReturn(status, Storage(records))
    /\ pc' = "returned"
    /\ UNCHANGED <<slice, iter, yielded>>
    /\ UNCHANGED parseVars
    /\ UNCHANGED fmtVars

\* IPv6AddrList::deref (also behind the deprecated addresses())
DerefList ==
    /\ pc = "returned"
    /\ ret.tag = "Ok"
    /\ slice' = Deref(ret)
    /\ pc' = IF Deref(ret).tag = "Panic" THEN "panicked" ELSE pc
    /\ UNCHANGED <<netif_ret, ret, iter, yielded>>
    /\ UNCHANGED parseVars
    /\ UNCHANGED fmtVars

\* <&IPv6AddrList as IntoIterator>::into_iter: self[..].iter()
IntoIter ==
    /\ pc = "returned"
    /\ ret.tag = "Ok"
    /\ iter' = IF Deref(ret).tag = "Panic" THEN NoIter
               ELSE [tag |-> "Iter", items |-> Deref(ret).items, pos |-> 0]
    /\ yielded' = <<>>
    /\ pc' = IF Deref(ret).tag = "Panic" THEN "panicked" ELSE pc
    /\ UNCHANGED <<netif_ret, ret, slice>>
    /\ UNCHANGED parseVars
    /\ UNCHANGED fmtVars

\* core::slice::Iter::next on the iterator into_iter returned
IterNext ==
    /\ pc = "returned"
    /\ iter.tag = "Iter"
    /\ iter.pos < Len(iter.items)
    /\ iter' = [iter EXCEPT !.pos = @ + 1]
    /\ yielded' = Append(yielded, iter.items[iter.pos + 1])
    /\ UNCHANGED <<pc, netif_ret, ret, slice>>
    /\ UNCHANGED parseVars
    /\ UNCHANGED fmtVars

InitList ==
    /\ pc = "ipv6_addrs"
    /\ netif_ret = NoQuery
    /\ ret = NoRet
    /\ slice = NoSlice
    /\ iter = NoIter
    /\ yielded = <<>>

IdleList ==
    /\ netif_ret = NoQuery
    /\ ret = NoRet
    /\ slice = NoSlice
    /\ iter = NoIter
    /\ yielded = <<>>

---------------------------------------------------------------------------
(* IPv6Addr::from_str *)

Err == [tag |-> "Err"]
Ok(a) == [tag |-> "Ok", addr |-> a]
NoResult == [tag |-> "None"]
NoPrim == [calls |-> 0]
NoPidArg == [some |-> FALSE]

\* let mut with_null = [0u8; 32 + 7 + 1]
ZeroBuf == Repeat(0, WithNullLen)

\* the precheck against the buffer length instead of the length less the null byte
TooLong_OffByOne(s) == Len(s) > WithNullLen

\* s.len() > with_null.len() - 1
TooLong(s) == Len(s) > WithNullLen - 1

\* a buffer whose rest is not null bytes
CopyFromSlice_NoTerminator(buf, s) ==
    [i \in 1..Len(buf) |-> IF i <= Len(s) THEN s[i] ELSE 120]

\* with_null[..s.len()].copy_from_slice(s)
CopyFromSlice(buf, s) ==
    [i \in 1..Len(buf) |-> IF i <= Len(s) THEN s[i] ELSE buf[i]]

\* what a reader of the C string at the buffer's start sees: the bytes before
\* the first null byte
CStr(buf) ==
    LET nuls == {i \in 1..Len(buf) : buf[i] = 0}
        n == IF nuls = {} THEN Len(buf)
             ELSE (CHOOSE i \in nuls : \A j \in nuls : i <= j) - 1
    IN  SubSeq(buf, 1, n)

\* the bytes of a plain textual IPv6 address: hex digits, ':' and '.'
PlainAddressBytes == (48..57) \cup (65..70) \cup (97..102) \cup {58, 46}

\* ipv6_addr_from_str(inner, cstr): NULL (0) and inner left alone, or the
\* result pointer (non-zero) and inner written.  Which plain address strings
\* it accepts is the platform's business; it accepts no empty string and none
\* with a byte outside PlainAddressBytes.
ipv6_addr_from_str(cstr) ==
    {[calls |-> 1, sig |-> 0, inner |-> Uninit]}
    \cup IF cstr # <<>> /\ \A i \in 1..Len(cstr) : cstr[i] \in PlainAddressBytes
         THEN {[calls |-> 1, sig |-> 1, inner |-> Slot(a)] : a \in AddrPool}
         ELSE {}

\* match conversion_result as usize { 0 => Err(()), _ => Ok(Self { inner }) }
ConversionResult(conv) ==
    IF conv.sig = 0 THEN Err ELSE Ok(conv.inner.value)

\* every way a call of from_str(s) can go: its return value, the buffer it
\* built and what it did with the primitive
FromStrOutcomes(s) ==
    IF TooLong(s)
    THEN {[result |-> Err, with_null |-> ZeroBuf, prim |-> NoPrim]}
    ELSE LET buf == CopyFromSlice(ZeroBuf, s) IN
         {[result |-> ConversionResult(conv), with_null |-> buf, prim |-> conv] :
             conv \in ipv6_addr_from_str(CStr(buf))}

\* <IPv6Addr as FromStr>::from_str
FromStr ==
    /\ pc = "from_str"
    /\ \E o \in FromStrOutcomes(input) :
          /\ result' = o.result
          /\ with_null' = o.with_null
          /\ prim' = o.prim
    /\ pc' = "from_str_done"
    /\ UNCHANGED <<input, pidArg, calls>>
    /\ UNCHANGED listVars
    /\ UNCHANGED fmtVars

---------------------------------------------------------------------------
(* split_ipv6_address *)

\* bounds of kernel_pid_t
KernelPidMax == 2 ^ (KernelPidBits - 1) - 1
KernelPidMin == 0 - 2 ^ (KernelPidBits - 1)

IsDigit(b) == b \in 48..57

RECURSIVE PidDigits(_, _, _)
\* the digit loop of from_str_radix: acc * 10 +/- digit, checked at each step
PidDigits(digits, acc, positive) ==
    IF digits = <<>> THEN [ok |-> TRUE, value |-> acc]
    ELSE IF ~IsDigit(Head(digits)) THEN [ok |-> FALSE]
    ELSE LET d == Head(digits) - 48
             next == IF positive THEN acc * 10 + d ELSE acc * 10 - d
         IN  IF next > KernelPidMax \/ next < KernelPidMin THEN [ok |-> FALSE]
             ELSE PidDigits(Tail(digits), next, positive)

\* <kernel_pid_t as FromStr>::from_str, i.e. i16::from_str_radix(x, 10)
ParseKernelPid(x) ==
    IF x = <<>> THEN [ok |-> FALSE]
    ELSE IF x = <<43>> \/ x = <<45>> THEN [ok |-> FALSE]
    ELSE IF Head(x) = 43 THEN PidDigits(Tail(x), 0, TRUE)
    ELSE IF Head(x) = 45 THEN PidDigits(Tail(x), 0, FALSE)
    ELSE PidDigits(x, 0, TRUE)

Percents(s) == {i \in 1..Len(s) : s[i] = 37}

\* rsplitn(2, "%"): cut at the last '%'
SplitN2_LastPercent(s) ==
    IF Percents(s) = {} THEN <<s>>
    ELSE LET k == CHOOSE i \in Percents(s) : \A j \in Percents(s) : j <= i
         IN  <<SubSeq(s, 1, k - 1), SubSeq(s, k + 1, Len(s))>>

\* input.splitn(2, "%"): at most two parts, cut at the first '%'
SplitN2(s) ==
    IF Percents(s) = {} THEN <<s>>
    ELSE LET k == CHOOSE i \in Percents(s) : \A j \in Percents(s) : i <= j
         IN  <<SubSeq(s, 1, k - 1), SubSeq(s, k + 1, Len(s))>>

ErrStr(reason) == [tag |-> "Err", reason |-> reason]
None == [some |-> FALSE]
Some(n) == [some |-> TRUE, pid |-> n]
OkPair(a, iface) == [tag |-> "Ok", addr |-> a, iface |-> iface]

\* the interface part parsed, and its failure returned, before the address part
SplitReturn_InterfaceFirst(parts, parsed) ==
    IF Len(parts) = 0 THEN
        [result |-> ErrStr("No address"), pidArg |-> NoPidArg, calls |-> <<>>]
    ELSE IF Len(parts) = 2 /\ ~ParseKernelPid(parts[2]).ok THEN
        [result |-> ErrStr("Non-numeric interface identifier"),
         pidArg |-> [some |-> TRUE, str |-> parts[2]], calls |-> <<"parse">>]
    ELSE IF parsed.tag = "Err" THEN
        [result |-> ErrStr("Unparsable address"),
         pidArg |-> IF Len(parts) = 2 THEN [some |-> TRUE, str |-> parts[2]]
                    ELSE NoPidArg,
         calls |-> IF Len(parts) = 2 THEN <<"parse", "from_str">>
                   ELSE <<"from_str">>]
    ELSE
        [result |-> OkPair(parsed.addr,
                           IF Len(parts) = 2
                           THEN Some(ParseKernelPid(parts[2]).value) ELSE None),
         pidArg |-> IF Len(parts) = 2 THEN [some |-> TRUE, str |-> parts[2]]
                    ELSE NoPidArg,
         calls |-> IF Len(parts) = 2 THEN <<"parse", "from_str">>
                   ELSE <<"from_str">>]

\* the body of split_ipv6_address after the split, given what from_str
\* returned for the first part: the return value, the string handed to the
\* interface parse, and the parse calls made, in order
SplitReturn(parts, parsed) ==
    IF Len(parts) = 0 THEN
        \* s.next().ok_or("No address")?
        [result |-> ErrStr("No address"), pidArg |-> NoPidArg, calls |-> <<>>]
    ELSE IF parsed.tag = "Err" THEN
        \* .parse().map_err(|_| "Unparsable address")?
        [result |-> ErrStr("Unparsable address"), pidArg |-> NoPidArg,
         calls |-> <<"from_str">>]
    ELSE IF Len(parts) = 1 THEN
        \* match s.next() { None => None, ...
        [result |-> OkPair(parsed.addr, None), pidArg |-> NoPidArg,
         calls |-> <<"from_str">>]
    ELSE LET n == ParseKernelPid(parts[2]) IN
        \* Some(x) => Some(x.parse().map_err(|_| "Non-numeric ...")?)
        [result |-> IF n.ok THEN OkPair(parsed.addr, Some(n.value))
                    ELSE ErrStr("Non-numeric interface identifier"),
         pidArg |-> [some |-> TRUE, str |-> parts[2]],
         calls |-> <<"from_str", "parse">>]

\* split_ipv6_address
SplitIpv6Address ==
    /\ pc = "split_ipv6_address"
    /\ LET parts == SplitN2(input) IN
       \E o \in FromStrOutcomes(parts[1]) :
          LET r == SplitReturn(parts, o.result) IN
          /\ result' = r.result
          /\ pidArg' = r.pidArg
          /\ calls' = r.calls
          /\ with_null' = o.with_null
          /\ prim' = o.prim
    /\ pc' = "split_done"
    /\ UNCHANGED input
    /\ UNCHANGED listVars
    /\ UNCHANGED fmtVars

\* the input strings of the model
Alphabet == {0, 37, 45, 49, 58, 120}

ShortInputs == UNION {[1..n -> Alphabet] : n \in 0..MaxShort}

LongLens == (WithNullLen - 1 - MaxAround) .. (WithNullLen - 1 + MaxAround)

LongInputs ==
    UNION {{Repeat(c, n),
            Repeat(c, n) \o B(<<"%", "1">>),
            <<c, 0>> \o Repeat(120, n - 2)} : c \in {49, 58, 120}, n \in LongLens}

Examples ==
    {B(<<"f","e","8","0",":",":","1","%","4","2">>),
     B(<<"f","e","8","0",":",":","1">>),
     B(<<"%","4","2">>),
     B(<<"f","e","8","0",":",":","1","%","a","b","c">>),
     B(<<"n","o","t","-","a","n","-","a","d","d","r","e","s","s","%","1">>),
     B(<<"f","e","8","0",":",":","1","%">>),
     B(<<"f","e","8","0",":",":","1","%","+","7">>),
     B(<<"f","e","8","0",":",":","1","%","-","5">>),
     B(<<"f","e","8","0",":",":","1","%","4","%","2">>),
     B(<<"f","e","8","0",":",":","1","%","3","2","7","6","7">>),
     B(<<"f","e","8","0",":",":","1","%","3","2","7","6","8">>),
     B(<<"f","e","8","0",":",":","1","%","-","3","2","7","6","8">>),
     B(<<"f","e","8","0",":",":","1","%","-","3","2","7","6","9">>)}

Inputs == ShortInputs \cup LongInputs \cup Examples

IdleParse ==
    /\ input = <<>>
    /\ with_null = <<>>
    /\ prim = NoPrim
    /\ pidArg = NoPidArg
    /\ calls = <<>>
    /\ result = NoResult

InitParse ==
    /\ pc \in {"from_str", "split_ipv6_address"}
    /\ input \in Inputs
    /\ with_null = <<>>
    /\ prim = NoPrim
    /\ pidArg = NoPidArg
    /\ calls = <<>>
    /\ result = NoResult

---------------------------------------------------------------------------
(* impl Debug for IPv6Addr *)

\* a digit of the x (lower-case hexadecimal) format
HexDigit(n) == IF n < 10 THEN 48 + n ELSE 97 + (n - 10)

RECURSIVE LowerHex(_)
\* {:x} of a u8: its hexadecimal digits, no leading zeros, "0" for zero
LowerHex(b) ==
    IF b < 16 THEN <<HexDigit(b)>>
    ELSE Append(LowerHex(b \div 16), HexDigit(b % 16))

\* {:x}: no padding
Pad02_None(digits) == digits

\* the 02 of {:02x}: zero-padded on the left to a width of 2
Pad02(digits) ==
    IF Len(digits) < 2 THEN Repeat(48, 2 - Len(digits)) \o digits ELSE digits

RECURSIVE FmtFrom(_, _)
\* the format string from argument i on: {:02x}{:02x}: ... {:02x}{:02x}
FmtFrom(as_u8, i) ==
    IF i > AddrSize THEN <<>>
    ELSE Pad02(LowerHex(as_u8[i]))
         \o (IF i % 2 = 0 /\ i < AddrSize THEN <<58>> ELSE <<>>)
         \o FmtFrom(as_u8, i + 1)

\* <IPv6Addr as Debug>::fmt
Fmt ==
    /\ pc = "fmt"
    /\ rendered' = FmtFrom(addr, 1)
    /\ pc' = "fmt_done"
    /\ UNCHANGED addr
    /\ UNCHANGED listVars
    /\ UNCHANGED parseVars

ByteSamples == {0, 1, 9, 10, 15, 16, 128, 171, 254, 255}

\* the addresses rendered: one sample byte at any position of a uniform address
FmtAddrs ==
    {[i \in 1..AddrSize |-> IF i = p THEN b ELSE base] :
        p \in 1..AddrSize, b \in ByteSamples, base \in {0, 10, 255}}
    \cup AddrPool

Zero16 == Repeat(0, AddrSize)

IdleFmt ==
    /\ addr = Zero16
    /\ rendered = <<>>

InitFmt ==
    /\ pc = "fmt"
    /\ addr \in FmtAddrs
    /\ rendered = <<>>

---------------------------------------------------------------------------
(* The program *)

Init ==
    \/ InitList /\ IdleParse /\ IdleFmt
    \/ InitParse /\ IdleList /\ IdleFmt
    \/ InitFmt /\ IdleList /\ IdleParse

Next ==
    \/ Ipv6Addrs
    \/ DerefList
    \/ IntoIter
    \/ IterNext
    \/ FromStr
    \/ SplitIpv6Address
    \/ Fmt

Spec == Init /\ [][Next]_vars

---------------------------------------------------------------------------
(* Properties *)

\* the records of the query as initialized slots, in the order written
WrittenSlots == [i \in 1..Len(netif_ret.records) |-> Slot(netif_ret.records[i])]

\* C1: after a successful ipv6_addrs whose query reported b bytes,
\* 0 <= b <= MAX*16, len is b divided by 16 rounded down, and the read views
\* (deref, iteration) give exactly the slots 0..len-1, each once, in storage
\* order, all initialized (none of [len, MAX)); b = 0 gives an empty view.
C1_LenAndView ==
    (ret.tag = "Ok" /\ netif_ret.status \in 0..(MAX * 16)) =>
        /\ 16 * ret.len <= netif_ret.status
        /\ netif_ret.status < 16 * (ret.len + 1)
        /\ ret.len <= MAX
        /\ pc # "panicked"
        /\ slice.tag # "None" =>
              /\ slice.tag = "Slice"
              /\ Len(slice.items) = ret.len
              /\ \A i \in 1..ret.len :
                    slice.items[i].init /\ slice.items[i] = WrittenSlots[i]
        /\ iter.tag # "None" =>
              /\ Len(iter.items) = ret.len
              /\ Len(yielded) = iter.pos
              /\ iter.pos <= ret.len
              /\ \A i \in 1..Len(yielded) :
                    yielded[i].init /\ yielded[i] = WrittenSlots[i]
        /\ netif_ret.status = 0 =>
              /\ slice.tag # "None" => slice.items = <<>>
              /\ yielded = <<>>

\* C1's case: a byte count that is no multiple of 16, one whole record, the
\* view taken and the iteration run to its end
C1_Witness ==
    /\ ret.tag = "Ok"
    /\ netif_ret.status = 16 + 5
    /\ ret.len = 1
    /\ slice.tag = "Slice"
    /\ iter.tag = "Iter"
    /\ iter.pos = Len(iter.items)
    /\ yielded = <<Slot(LinkLocal1)>>

\* C2: every list the fill returns has len <= MAX; a query reporting more
\* than MAX records aborts inside the fill and no list is returned.
C2_OverlongFillAborts ==
    /\ ret.tag = "Ok" => ret.len <= MAX
    /\ (netif_ret.called /\ netif_ret.status >= 0
            /\ netif_ret.status \div 16 > MAX) =>
          (pc = "panicked" /\ ret.tag = "None")

\* C3: a negative status of the query makes ipv6_addrs return the error
\* carrying that status, and no list: nothing of a list is ever observed.
C3_FailurePropagated ==
    /\ (netif_ret.called /\ netif_ret.status < 0) =>
          /\ ret = [tag |-> "Err", number |-> netif_ret.status]
          /\ slice.tag = "None"
          /\ iter.tag = "None"
          /\ yielded = <<>>
    /\ ret.tag = "Ok" => netif_ret.status >= 0

\* C3's case: the query failed and the fill returned
C3_Witness ==
    /\ netif_ret.called
    /\ netif_ret.status = 0 - MaxErrno
    /\ ret.tag = "Err"
    /\ pc = "returned"

\* the part of s before its first '%' (all of s without one)
LeftPart(s) ==
    IF Percents(s) = {} THEN s
    ELSE SubSeq(s, 1, (CHOOSE k \in Percents(s) : \A j \in Percents(s) : k <= j) - 1)

\* the part of s after its first '%'
RightPart(s) ==
    SubSeq(s, (CHOOSE k \in Percents(s) : \A j \in Percents(s) : k <= j) + 1, Len(s))

\* from_str on the first part succeeded
LeftParsed == prim.calls = 1 /\ prim.sig # 0

\* C4: an empty part before the first '%' fails with "No address", a
\* non-empty one that does not parse with "Unparsable address".
C4_EmptyLeftIsNoAddress ==
    pc = "split_done" =>
        /\ LeftPart(input) = <<>> => result = ErrStr("No address")
        /\ (LeftPart(input) # <<>> /\ ~LeftParsed) =>
              result = ErrStr("Unparsable address")

\* x is a decimal numeral, with an optional sign, of the integer n
RECURSIVE DecimalValue(_)
DecimalValue(digits) ==
    IF digits = <<>> THEN 0
    ELSE 10 * DecimalValue(SubSeq(digits, 1, Len(digits) - 1))
         + (digits[Len(digits)] - 48)

Denotes(x, n) ==
    LET signed == x # <<>> /\ x[1] \in {43, 45}
        digits == IF signed THEN Tail(x) ELSE x
    IN  /\ digits # <<>>
        /\ \A i \in 1..Len(digits) : IsDigit(digits[i])
        /\ n = IF x[1] = 45 THEN 0 - DecimalValue(digits) ELSE DecimalValue(digits)

\* C5: with the first part parsed to A: no '%' gives (A, None); a second part
\* gives (A, Some(n)) only if it denotes a non-negative n of kernel_pid_t's
\* range, and every other second part gives "Non-numeric interface identifier".
C5_InterfaceNonNegative ==
    (pc = "split_done" /\ LeftParsed) =>
        IF Percents(input) = {}
        THEN result = OkPair(prim.inner.value, None)
        ELSE \/ /\ result.tag = "Ok"
                /\ result.addr = prim.inner.value
                /\ result.iface.some
                /\ result.iface.pid \in 0..KernelPidMax
                /\ Denotes(RightPart(input), result.iface.pid)
             \/ /\ result = ErrStr("Non-numeric interface identifier")
                /\ \A n \in 0..KernelPidMax : ~Denotes(RightPart(input), n)

\* C6: the input is cut at its first '%' only: the address part is what is
\* before it, the interface part all that is after it; with two or more '%'
\* and a first part that parses the result is the non-numeric failure, and
\* no input with a second '%' succeeds.
C6_SplitOnFirstPercent ==
    (pc = "split_done" /\ Percents(input) # {}) =>
        LET k == CHOOSE i \in Percents(input) : \A j \in Percents(input) : i <= j
        IN  /\ IF k - 1 <= 39
               THEN /\ prim.calls = 1
                    /\ \A i \in 1..(k - 1) : with_null[i] = input[i]
                    /\ with_null[k] = 0
               ELSE prim.calls = 0
            /\ pidArg.some =>
                  /\ Len(pidArg.str) = Len(input) - k
                  /\ \A i \in 1..Len(pidArg.str) : pidArg.str[i] = input[k + i]
            /\ LeftParsed => pidArg.some
            /\ (Cardinality(Percents(input)) >= 2 /\ LeftParsed) =>
                  result = ErrStr("Non-numeric interface identifier")
            /\ Cardinality(Percents(input)) >= 2 => result.tag = "Err"

\* C6's case: two '%', the first part parsed
C6_Witness ==
    /\ pc = "split_done"
    /\ Cardinality(Percents(input)) = 2
    /\ LeftParsed
    /\ pidArg.some
    /\ 37 \in {pidArg.str[i] : i \in 1..Len(pidArg.str)}
    /\ result = ErrStr("Non-numeric interface identifier")

\* C7: from_str rejects every input longer than 39 bytes without invoking
\* the primitive, and invokes it exactly once for every input of 39 or fewer.
C7_LengthPrecheck ==
    pc = "from_str_done" =>
        IF Len(input) > 39
        THEN result = Err /\ prim.calls = 0
        ELSE prim.calls = 1

\* C7's case: the shortest input that is too long
C7_Witness ==
    /\ pc = "from_str_done"
    /\ Len(input) = 40
    /\ \A i \in 1..40 : input[i] \in PlainAddressBytes
    /\ result = Err
    /\ prim.calls = 0

\* C8: for an input of at most 39 bytes from_str hands the primitive a
\* 40-byte buffer holding the input followed by null bytes only, leaves the
\* input as it was, and returns Ok of the address the primitive wrote iff the
\* primitive's return is non-zero, Err(()) iff it is zero.
C8_BufferAndResult ==
    [][(pc = "from_str" /\ pc' = "from_str_done" /\ Len(input) <= 39) =>
          /\ input' = input
          /\ Len(with_null') = 40
          /\ \A i \in 1..40 :
                with_null'[i] = IF i <= Len(input) THEN input[i] ELSE 0
          /\ prim'.calls = 1
          /\ prim'.sig # 0 =>
                prim'.inner.init /\ result' = Ok(prim'.inner.value)
          /\ prim'.sig = 0 => result' = Err
          /\ result'.tag \in {"Ok", "Err"}]_vars

\* C8's case: an input with a null byte inside, accepted on what precedes it
C8_Witness ==
    /\ pc = "from_str_done"
    /\ Len(input) = 3
    /\ input[2] = 0
    /\ input[3] = 120
    /\ prim.calls = 1
    /\ prim.sig # 0
    /\ result = Ok(LinkLocal1)

\* the value of a lower-case hexadecimal digit, -1 for any other byte
HexVal(c) ==
    IF c \in 48..57 THEN c - 48 ELSE IF c \in 97..102 THEN c - 87 ELSE 0 - 1

\* C9: the Debug rendering is exactly 39 characters: eight groups of four
\* lower-case zero-padded hex digits, group i being bytes 2i and 2i+1, with
\* seven colons between them and no "::" shortening.
C9_FixedWidthRendering ==
    pc = "fmt_done" =>
        /\ Len(rendered) = 39
        /\ \A g \in 0..7 :
              /\ \A d \in 1..4 : HexVal(rendered[5 * g + d]) >= 0
              /\ 16 * HexVal(rendered[5 * g + 1]) + HexVal(rendered[5 * g + 2])
                    = addr[2 * g + 1]
              /\ 16 * HexVal(rendered[5 * g + 3]) + HexVal(rendered[5 * g + 4])
                    = addr[2 * g + 2]
              /\ g < 7 => rendered[5 * g + 5] = 58
        /\ addr = LinkLocal1 =>
              rendered = B(<<"f","e","8","0",":","0","0","0","0",":",
                             "0","0","0","0",":","0","0","0","0",":",
                             "0","0","0","0",":","0","0","0","0",":",
                             "0","0","0","0",":","0","0","0","1">>)

\* C9's case: fe80::1 rendered
C9_Witness ==
    /\ pc = "fmt_done"
    /\ addr = LinkLocal1
    /\ Len(rendered) = 39
    /\ rendered[1] = 102
    /\ rendered[39] = 49

\* C10: the address part is evaluated before the interface part: when
\* from_str fails the result is the address failure whatever follows the '%',
\* the interface parse is not attempted, and the non-numeric failure is
\* returned only after the address parsed.
C10_AddressBeforeInterface ==
    pc = "split_done" =>
        /\ ~LeftParsed =>
              /\ result = ErrStr("Unparsable address")
              /\ ~pidArg.some
              /\ calls = <<"from_str">>
        /\ result = ErrStr("Non-numeric interface identifier") =>
              LeftParsed /\ calls = <<"from_str", "parse">>
        /\ calls # <<>> /\ calls[1] = "from_str"

\* C10's case: neither part would parse
C10_Witness ==
    /\ pc = "split_done"
    /\ Percents(input) # {}
    /\ prim.calls = 1
    /\ prim.sig = 0
    /\ ~ParseKernelPid(RightPart(input)).ok
    /\ result = ErrStr("Unparsable address")

===========================================================================
